---- MODULE Spec2Model ----
(***************************************************************************)
(* A model of GIMI-MUI.py: the mod lists of the "manage" tab, built by a   *)
(* walk of <cwd>/Mods and changed by renaming directories, and the merge   *)
(* list and merge order of the "merge" tab.                                *)
(*                                                                         *)
(* Names are strings, handled as Python handles them (slices,              *)
(* concatenation, startswith/endswith/in); a path is the sequence of its   *)
(* components.  The filesystem is a function from the path of every        *)
(* existing directory to the set of the names of its immediate files; the  *)
(* text of the merge directory field is a path too, <<>> when empty.       *)
(* os.walk lists the children of a directory in                            *)
(* ascending code-point order of their names (the order an NTFS volume     *)
(* returns); os.rename follows the Windows rule and fails when the         *)
(* destination exists.                                                     *)
(***************************************************************************)
EXTENDS Integers, Sequences, FiniteSets, TLC

VARIABLES
    fs,               \* existing directory path |-> set of file names
    enabledModList,   \* ui.enabledModList: sequence of [text, toolTip]
    disabledModList,  \* ui.disabledModList: sequence of [text, toolTip]
    mergeDirLineEdit, \* ui.mergeDirLineEdit.text()
    mergeModList,     \* ui.mergeModList: sequence of [text, toolTip]
    swapKeyLineEdit,  \* ui.swapKeyLineEdit.text()
    mergeModsButton,  \* ui.mergeModsButton.isEnabled()
    raised,           \* the exception that left the last handler, "none" if none did
    log,              \* the messages logMessage appended during the last handler
    lastOp,           \* the last handler run, its inputs and what it did
    external,         \* how often the tree was changed from outside the program
    workdir,          \* os.getcwd(): the working directory of the process
    carousel_images,  \* self.carousel_images: the paths of the images of the preview
    carousel_idx      \* self.carousel_idx

vars == <<fs, enabledModList, disabledModList, mergeDirLineEdit, mergeModList,
          swapKeyLineEdit, mergeModsButton, raised, log, lastOp, external, workdir,
          carousel_images, carousel_idx>>

\* the state of the image preview
carouselVars == <<carousel_images, carousel_idx>>

\* the widgets of the merge tab
mergeVars == <<mergeDirLineEdit, mergeModList, swapKeyLineEdit, mergeModsButton>>

\* the widgets of the manage tab
manageVars == <<enabledModList, disabledModList>>

-----------------------------------------------------------------------------
(* Bounds of the model *)

\* the largest number of directories below Mods in an initial tree
MaxDirs == 3
\* the largest number of list items selected for one moveMods
MaxSel == 2
\* the largest number of changes made to the tree from outside the program
MaxExternal == 1

-----------------------------------------------------------------------------
(* Python string operations *)

Alphabet == "./0123456789ABCDEFGHIJKLMNOPQRSTUVWXYZ_abcdefghijklmnopqrstuvwxyz"

\* ord(c), restricted to the characters the model uses
OrdOf == [c \in {SubSeq(Alphabet, i, i) : i \in 1..Len(Alphabet)} |->
             CHOOSE i \in 1..Len(Alphabet) : SubSeq(Alphabet, i, i) = c]
Ord(c) == OrdOf[c]

Uppers == "ABCDEFGHIJKLMNOPQRSTUVWXYZ"
Lowers == "abcdefghijklmnopqrstuvwxyz"

\* c.lower() and c.upper() for one character
LowerOf == [c \in DOMAIN OrdOf |->
               IF \E i \in 1..Len(Uppers) : SubSeq(Uppers, i, i) = c
               THEN LET i == CHOOSE j \in 1..Len(Uppers) : SubSeq(Uppers, j, j) = c
                    IN SubSeq(Lowers, i, i)
               ELSE c]
UpperOf == [c \in DOMAIN OrdOf |->
               IF \E i \in 1..Len(Lowers) : SubSeq(Lowers, i, i) = c
               THEN LET i == CHOOSE j \in 1..Len(Lowers) : SubSeq(Lowers, j, j) = c
                    IN SubSeq(Uppers, i, i)
               ELSE c]

\* s.lower()
RECURSIVE lower(_)
lower(s) == IF s = "" THEN "" ELSE LowerOf[SubSeq(s, 1, 1)] \o lower(SubSeq(s, 2, Len(s)))

\* s.upper()
RECURSIVE upper(_)
upper(s) == IF s = "" THEN "" ELSE UpperOf[SubSeq(s, 1, 1)] \o upper(SubSeq(s, 2, Len(s)))

\* s[i:] with i >= 0
SliceFrom(s, i) == SubSeq(s, i + 1, Len(s))

\* s[:-n] with n >= 0 (Python: s[:-0] is s[:0], the empty string)
SliceEnd(s, n) == IF n = 0 THEN "" ELSE SubSeq(s, 1, Len(s) - n)

\* s.startswith(p)
startswith(s, p) == Len(s) >= Len(p) /\ SubSeq(s, 1, Len(p)) = p

\* s.endswith(p)
endswith(s, p) == Len(s) >= Len(p) /\ SubSeq(s, Len(s) - Len(p) + 1, Len(s)) = p

\* sub in s
contains(s, sub) ==
    \E i \in 1..(Len(s) - Len(sub) + 1) : SubSeq(s, i, i + Len(sub) - 1) = sub

\* a < b, comparing code points as Python compares str
RECURSIVE StrLess(_, _)
StrLess(a, b) ==
    IF b = "" THEN FALSE
    ELSE IF a = "" THEN TRUE
    ELSE LET x == Ord(SubSeq(a, 1, 1))
             y == Ord(SubSeq(b, 1, 1))
         IN IF x # y THEN x < y ELSE StrLess(SliceFrom(a, 1), SliceFrom(b, 1))

-----------------------------------------------------------------------------
(* The names of the model *)

\* the prefix of a disabled mod's directory (moveMods)
prefix == "DISABLED"

\* the names of the directories of the initial trees, without the prefix
Unprefixed == {"app", "Mods", "ModA", "_ModB", "W", "ShaderCache", "sub",
               "Scripts", "Merge", "pack", "ModB", "ModC", ".", "Group",
               "ShaderCacheMod"}

\* n with the prefix put in front k times
RECURSIVE Prefixed(_, _)
Prefixed(n, k) == IF k = 0 THEN n ELSE prefix \o Prefixed(n, k - 1)

\* Every name a directory can come to have.  A rename adds the prefix to a
\* name or takes it off; a tree of d directories cannot stack more than d + 1
\* prefixes on one name.  NameRank is defined on these names only.
AllNames ==
    {Prefixed(n, k) : n \in Unprefixed, k \in 0..(MaxDirs + 2)} \cup {"disabledModC"}

\* the place of each name in the order of a directory listing: ascending
\* code points, computed once
NameRank == [n \in AllNames |-> Cardinality({m \in AllNames : StrLess(m, n)})]

-----------------------------------------------------------------------------
(* Paths and the filesystem *)

\* A path is the sequence of its components: "/app/Mods/W" is <<"app", "Mods", "W">>.

\* os.path.basename(p)
basename(p) == IF p = <<>> THEN "" ELSE p[Len(p)]

\* os.path.dirname(p)
dirname(p) == SubSeq(p, 1, Len(p) - 1)

\* os.path.join(a, b) for a relative, one-component b
join(a, b) == Append(a, b)

\* word in p, for a word without a separator: it lies within one component
inPath(p, word) == \E i \in 1..Len(p) : contains(p[i], word)

\* os.getcwd()
cwd == <<"app">>

\* os.path.join(os.getcwd(), "Mods")
modding_dir == join(cwd, "Mods")

\* os.path.exists(p), for directories
exists(fsys, p) == p \in DOMAIN fsys

\* the set S of names as a sequence in the order os.walk lists them
RECURSIVE Sorted(_)
SortedFrom(S, m) == <<m>> \o Sorted(S \ {m})
Sorted(S) ==
    IF S = {} THEN <<>>
    ELSE SortedFrom(S, CHOOSE x \in S : \A y \in S : NameRank[x] <= NameRank[y])

\* the `dirs` os.walk yields for root: the names of its subdirectories
listdirs(fsys, root) ==
    Sorted({basename(p) : p \in {q \in DOMAIN fsys : q # <<>> /\ dirname(q) = root}})

\* the paths os.walk descends into from root, given its dirs, in order
subdirsOf(root, dirs) == [i \in 1..Len(dirs) |-> join(root, dirs[i])]

\* the paths of the subdirectories of root, in the order os.walk descends
subdirs(fsys, root) == subdirsOf(root, listdirs(fsys, root))

\* p is old or lies below it
within(p, old) == Len(p) >= Len(old) /\ SubSeq(p, 1, Len(old)) = old

\* os.rename(old, new) raises: new exists (the Windows rule), new names no
\* entry of a directory, or the directory that is to hold new is missing
renameFails(fsys, old, new) ==
    \/ ~exists(fsys, old)
    \/ exists(fsys, new)
    \/ basename(new) = ""
    \/ ~exists(fsys, dirname(new))

\* the tree after os.rename(old, new) of a directory
renamed(fsys, old, new) ==
    [q \in {IF within(p, old) THEN new \o SubSeq(p, Len(old) + 1, Len(p)) ELSE p :
               p \in DOMAIN fsys}
        |-> fsys[IF within(q, new) THEN old \o SubSeq(q, Len(new) + 1, Len(q)) ELSE q]]

-----------------------------------------------------------------------------
(* The manage tab: populateModLists, findModDirectory, moveMods *)

\* QListWidgetItem(text) with setToolTip(toolTip)
Item(text, toolTip) == [text |-> text, toolTip |-> toolTip]

\* the cache directories populateModLists passes over
isCachePath(root) ==
    inPath(root, "BufferValues") \/ inPath(root, "ShaderCache") \/ inPath(root, "ShaderFixes")

\* some immediate file of root ends in ".ini"
hasIni(fsys, root) == \E file \in fsys[root] : endswith(file, ".ini")

\* the test that sends a found mod directory to the disabled list
isDisabledName(name) == startswith(name, prefix)

\* a scan that shows a disabled mod without its prefix
scanItemTextStripped(root) ==
    IF startswith(basename(root), prefix)
    THEN SliceFrom(basename(root), Len(prefix)) ELSE basename(root)

\* the text of the list item made for the mod directory root
scanItemText(root) == basename(root)

\* a scan that goes on below a directory that holds an .ini file
RECURSIVE scanModsNoPrune(_, _, _)
scanModsNoPrune(fsys, todo, acc) ==
    IF todo = <<>> THEN acc
    ELSE LET root == Head(todo)
             below == subdirs(fsys, root) \o Tail(todo)
             seen == [acc EXCEPT !.visited = Append(@, root)]
         IN IF isCachePath(root) \/ ~hasIni(fsys, root)
            THEN scanModsNoPrune(fsys, below, seen)
            ELSE IF isDisabledName(basename(root))
            THEN scanModsNoPrune(fsys, below,
                     [seen EXCEPT !.disabled = Append(@, Item(basename(root), root))])
            ELSE scanModsNoPrune(fsys, below,
                     [seen EXCEPT !.enabled = Append(@, Item(basename(root), root))])

\* The loop over os.walk(modding_dir) in populateModLists.  todo holds the
\* directories os.walk has still to yield, the next one first; acc collects
\* the directories yielded (visited) and the items appended to either list.
RECURSIVE scanMods(_, _, _)
scanMods(fsys, todo, acc) ==
    IF todo = <<>> THEN acc
    ELSE LET root == Head(todo)
             rest == Tail(todo)
             seen == [acc EXCEPT !.visited = Append(@, root)]
         IN IF isCachePath(root)
            THEN scanMods(fsys, subdirs(fsys, root) \o rest, seen)
            ELSE IF hasIni(fsys, root)
            THEN LET mod_item == Item(scanItemText(root), root)
                 IN IF isDisabledName(basename(root))
                    THEN scanMods(fsys, rest, [seen EXCEPT !.disabled = Append(@, mod_item)])
                    ELSE scanMods(fsys, rest, [seen EXCEPT !.enabled = Append(@, mod_item)])
            ELSE scanMods(fsys, subdirs(fsys, root) \o rest, seen)

\* what populateModLists computes from an existing Mods directory
scanResult(fsys) ==
    scanMods(fsys, <<modding_dir>>, [visited |-> <<>>, enabled |-> <<>>, disabled |-> <<>>])

\* the loop over dirs in findModDirectory: the first name from place i on
\* that is mod_name or prefixed, the name with DISABLED before it; "" if none
RECURSIVE firstFrom(_, _, _, _)
firstFrom(dirs, mod_name, prefixed, i) ==
    IF i > Len(dirs) THEN ""
    ELSE IF dirs[i] = mod_name \/ dirs[i] = prefixed THEN dirs[i]
    ELSE firstFrom(dirs, mod_name, prefixed, i + 1)
\* a lookup that takes the name as it is only
firstMatchExact(dirs, mod_name) == firstFrom(dirs, mod_name, mod_name, 1)

firstMatch(dirs, mod_name) == firstFrom(dirs, mod_name, "DISABLED" \o mod_name, 1)

\* the loop over os.walk(modding_dir) in findModDirectory: root is the
\* directory os.walk yields, name the first of its dirs that matches
RECURSIVE findWalk(_, _, _)
findAt(fsys, todo, mod_name, root, name) ==
    IF name # "" THEN join(root, name)
    ELSE findWalk(fsys, subdirs(fsys, root) \o Tail(todo), mod_name)
findWalk(fsys, todo, mod_name) ==
    IF todo = <<>> THEN <<>>
    ELSE findAt(fsys, todo, mod_name, Head(todo),
                firstMatch(listdirs(fsys, Head(todo)), mod_name))

\* findModDirectory(mod_name); <<>> stands for the empty string it returns
\* when nothing matches
findModDirectory(fsys, mod_name) ==
    IF exists(fsys, modding_dir) THEN findWalk(fsys, <<modding_dir>>, mod_name) ELSE <<>>

\* new_item_name in moveMods
newItemName(item_name, source_status) ==
    IF source_status = "Enabled" THEN prefix \o item_name
    ELSE SliceFrom(item_name, Len(prefix))

\* dest_path in moveMods: mod_dir[:-len(item_name)] + new_item_name.  The last
\* component of mod_dir is item_name or DISABLED + item_name, so the slice cuts
\* within it.
destPath(mod_dir, item_name, new_item_name) ==
    join(dirname(mod_dir), SliceEnd(basename(mod_dir), Len(item_name)) \o new_item_name)

\* a takeItem that takes the last item whatever the row
RemoveLast(s, i) == SubSeq(s, 1, Len(s) - 1)

\* s without its i-th element
RemoveAt(s, i) == SubSeq(s, 1, i - 1) \o SubSeq(s, i + 1, Len(s))

\* source_list.row(item): the place, in the list as it is now, of the item that
\* stood at place pos when moveMods began; gone holds the places already taken
row(pos, gone) == pos - Cardinality({g \in gone : g < pos})

\* what moveMods did with one selected item
Step(pos, item_name, mod_dir, dest_path, outcome) ==
    [pos |-> pos, item_name |-> item_name, mod_dir |-> mod_dir,
     dest_path |-> dest_path, outcome |-> outcome]

\* a test that never warns
nameMismatchNever(new_item_name, dest_path) == FALSE

\* the warning test after the rename
nameMismatch(new_item_name, dest_path) == new_item_name # basename(dest_path)

\* the try block of moveMods for one item: the rename, and on success the
\* move of the item from the source list to the end of the target list
tryRename(st, pos, item_name, mod_dir, new_item_name, dest_path) ==
    IF renameFails(st.fs, mod_dir, dest_path)
    THEN [st EXCEPT !.log = Append(@, "ERROR rename"),
                    !.steps = Append(@, Step(pos, item_name, mod_dir, dest_path, "failed"))]
    ELSE [st EXCEPT !.fs = renamed(@, mod_dir, dest_path),
                    !.source = RemoveAt(@, row(pos, st.gone)),
                    !.gone = @ \cup {pos},
                    !.target = Append(@, Item(new_item_name, dest_path)),
                    !.log = @ \o <<"INFO status">> \o
                            (IF nameMismatch(new_item_name, dest_path)
                             THEN <<"WARNING directory name">> ELSE <<>>),
                    !.steps = Append(@, Step(pos, item_name, mod_dir, dest_path, "renamed"))]

\* the body of the loop of moveMods once findModDirectory has answered
moveFound(st, pos, source_status, item_name, mod_dir) ==
    IF mod_dir = <<>>
    THEN [st EXCEPT !.log = Append(@, "ERROR could not find directory"),
                    !.steps = Append(@, Step(pos, item_name, mod_dir, <<>>, "notfound"))]
    ELSE tryRename(st, pos, item_name, mod_dir, newItemName(item_name, source_status),
                   destPath(mod_dir, item_name, newItemName(item_name, source_status)))

\* the body of the loop of moveMods for the item that stood at place pos
moveItem(st, pos, source_status) ==
    moveFound(st, pos, source_status, st.items[pos].text,
              findModDirectory(st.fs, st.items[pos].text))

\* a loop that gives up at the first item that cannot be moved
RECURSIVE moveLoopStops(_, _, _)
moveLoopStops(sel, source_status, st) ==
    IF sel = <<>> THEN st
    ELSE IF st.steps # <<>> /\ st.steps[Len(st.steps)].outcome # "renamed" THEN st
    ELSE moveLoopStops(Tail(sel), source_status, moveItem(st, Head(sel), source_status))

\* The loop over selected_items in moveMods.  sel holds the selected items
\* still to do, each the place of the item when moveMods began; st is the
\* state so far.
RECURSIVE moveLoop(_, _, _)
moveLoop(sel, source_status, st) ==
    IF sel = <<>> THEN st
    ELSE moveLoop(Tail(sel), source_status, moveItem(st, Head(sel), source_status))

\* moveMods(source_list, target_list, source_status) with the items sel selected
moveMods(fsys, source_list, target_list, source_status, sel) ==
    moveLoop(sel, source_status,
             [fs |-> fsys, items |-> source_list, source |-> source_list,
              target |-> target_list, gone |-> {}, log |-> <<>>, steps |-> <<>>])

\* the sequences of distinct places of a list of n items, at most MaxSel long:
\* what selectedItems() can return
Selections(n) ==
    {s \in UNION {[1..k -> 1..n] : k \in 0..MaxSel} :
        \A i, j \in 1..Len(s) : i # j => s[i] # s[j]}

-----------------------------------------------------------------------------
(* Handlers of the manage tab *)

\* a refresh that empties the lists before it looks for Mods
populateModListsClears ==
    /\ IF ~exists(fs, modding_dir)
       THEN /\ log' = <<"ERROR directory does not exist">>
            /\ lastOp' = [op |-> "populateModLists", visited |-> <<>>]
            /\ enabledModList' = <<>>
            /\ disabledModList' = <<>>
       ELSE \E r \in {scanResult(fs)} :
               /\ enabledModList' = r.enabled
               /\ disabledModList' = r.disabled
               /\ log' = IF r.enabled = <<>> /\ r.disabled = <<>>
                         THEN <<"WARNING no mods found">> ELSE <<>>
               /\ lastOp' = [op |-> "populateModLists", visited |-> r.visited]
    /\ raised' = "none"
    /\ UNCHANGED <<fs, mergeVars, external, workdir, carouselVars>>

\* the body of populateModLists
refreshModLists ==
    /\ IF ~exists(fs, modding_dir)
       THEN /\ log' = <<"ERROR directory does not exist">>
            /\ lastOp' = [op |-> "populateModLists", visited |-> <<>>]
            /\ UNCHANGED <<enabledModList, disabledModList>>
       ELSE \E r \in {scanResult(fs)} :
               /\ enabledModList' = r.enabled
               /\ disabledModList' = r.disabled
               /\ log' = IF r.enabled = <<>> /\ r.disabled = <<>>
                         THEN <<"WARNING no mods found">> ELSE <<>>
               /\ lastOp' = [op |-> "populateModLists", visited |-> r.visited]
    /\ raised' = "none"
    /\ UNCHANGED <<fs, mergeVars, external, workdir>>

\* a click on the refresh button of the manage tab
populateModLists == refreshModLists /\ UNCHANGED carouselVars

\* moveMods(enabledModList, disabledModList, "Enabled"): the remove button
moveModsDisable ==
    \E sel \in Selections(Len(enabledModList)) :
        \E r \in {moveMods(fs, enabledModList, disabledModList, "Enabled", sel)} :
           /\ fs' = r.fs
           /\ enabledModList' = r.source
           /\ disabledModList' = r.target
           /\ log' = r.log
           /\ lastOp' = [op |-> "moveMods", source_status |-> "Enabled", sel |-> sel,
                        steps |-> r.steps]
           /\ raised' = "none"
           /\ UNCHANGED <<mergeVars, external, workdir, carouselVars>>

\* moveMods(disabledModList, enabledModList, "Disabled"): the add button
moveModsEnable ==
    \E sel \in Selections(Len(disabledModList)) :
        \E r \in {moveMods(fs, disabledModList, enabledModList, "Disabled", sel)} :
           /\ fs' = r.fs
           /\ disabledModList' = r.source
           /\ enabledModList' = r.target
           /\ log' = r.log
           /\ lastOp' = [op |-> "moveMods", source_status |-> "Disabled", sel |-> sel,
                        steps |-> r.steps]
           /\ raised' = "none"
           /\ UNCHANGED <<mergeVars, external, workdir, carouselVars>>

\* The user, or another program, deletes a directory and all below it while
\* the window is open and the lists show what the last scan found; the lists
\* keep their items.
externalRemove ==
    \E p \in DOMAIN fs \ {cwd} :
        /\ external < MaxExternal
        /\ lastOp.op \in {"init", "populateModLists", "populateMergeList", "browseMergeDir"}
        /\ fs' = [q \in {x \in DOMAIN fs : ~within(x, p)} |-> fs[q]]
        /\ external' = external + 1
        /\ lastOp' = [op |-> "externalRemove"]
        /\ UNCHANGED <<manageVars, mergeVars, raised, log, workdir, carouselVars>>

-----------------------------------------------------------------------------
(* The merge tab: populateMergeList, getModOrder, runMerge *)

\* the directory the text of the merge directory field names: normpath("") is
\* ".", the working directory
mergeRoot(text) == IF text = <<>> THEN cwd ELSE text

\* the components of the string os.walk gives for directory p when the walk
\* starts at the directory the text names
shown(text, p) == IF text = <<>> THEN <<".">> \o SubSeq(p, Len(cwd) + 1, Len(p)) ELSE p

\* The loop over os.walk(merge_dir) in populateMergeList; acc collects the
\* directories yielded and the items added.
RECURSIVE mergeWalk(_, _, _, _)
mergeWalk(fsys, text, todo, acc) ==
    IF todo = <<>> THEN acc
    ELSE IF hasIni(fsys, Head(todo))
    THEN mergeWalk(fsys, text, Tail(todo),
             [visited |-> Append(acc.visited, Head(todo)),
              items |-> Append(acc.items,
                               Item(basename(shown(text, Head(todo))), Head(todo)))])
    ELSE mergeWalk(fsys, text, subdirs(fsys, Head(todo)) \o Tail(todo),
             [acc EXCEPT !.visited = Append(@, Head(todo))])

\* what populateMergeList finds below an existing merge directory
mergeScan(fsys, text) ==
    mergeWalk(fsys, text, <<mergeRoot(text)>>, [visited |-> <<>>, items |-> <<>>])

\* the state updateMergeButton gives the Merge Mods button
mergeButtonState(key, text, count) == key # "" /\ text # <<>> /\ count > 1

\* os.path.splitext(file)[1] == ".ini": the name ends in ".ini" and something
\* other than dots stands before that
hasIniExt(file) ==
    /\ endswith(file, ".ini")
    /\ \E i \in 1..(Len(file) - 4) : SubSeq(file, i, i) # "."

\* getModOrder passes over the file
orderSkipsFile(file, ignore) ==
    contains(lower(file), "disabled") \/ contains(lower(file), lower(ignore))

\* getModOrder passes over the directory with this root string
orderSkipsRoot(root) == \E i \in 1..Len(root) : contains(lower(root[i]), "disabled")

\* base_dict[key] = len(base_dict)
setIndex(base_dict, key) ==
    [k \in DOMAIN base_dict \cup {key} |->
        IF k = key THEN Cardinality(DOMAIN base_dict) ELSE base_dict[k]]

\* the loop over the files of one directory in getModOrder
RECURSIVE orderFiles(_, _, _, _)
orderFiles(files, name, ignore, base_dict) ==
    IF files = {} THEN base_dict
    ELSE LET file == CHOOSE f \in files : \A g \in files : g = f \/ StrLess(f, g)
         IN orderFiles(files \ {file}, name, ignore,
                IF ~orderSkipsFile(file, ignore) /\ hasIniExt(file)
                THEN setIndex(base_dict, name) ELSE base_dict)

\* the loop over os.walk(path) in getModOrder
RECURSIVE orderWalk(_, _, _, _, _)
orderWalk(fsys, text, ignore, todo, base_dict) ==
    IF todo = <<>> THEN base_dict
    ELSE orderWalk(fsys, text, ignore, subdirs(fsys, Head(todo)) \o Tail(todo),
             IF orderSkipsRoot(shown(text, Head(todo))) THEN base_dict
             ELSE orderFiles(fsys[Head(todo)], basename(shown(text, Head(todo))),
                             ignore, base_dict))

\* base_dict of getModOrder(path, ignore); os.walk of a missing directory
\* yields nothing
baseDict(fsys, text, ignore) ==
    IF exists(fsys, mergeRoot(text))
    THEN orderWalk(fsys, text, ignore, <<mergeRoot(text)>>, [k \in {} |-> 0])
    ELSE [k \in {} |-> 0]

\* a second loop that passes over the items base_dict does not hold
newOrderSkips(base_dict, list) ==
    [raised |-> "none",
     order |-> [i \in 1..Cardinality({j \in 1..Len(list) : list[j].text \in DOMAIN base_dict})
                   |-> 0]]

\* the second loop of getModOrder: the index of every item of the merge list,
\* or the KeyError base_dict[...] raises
newOrder(base_dict, list) ==
    IF \E i \in 1..Len(list) : list[i].text \notin DOMAIN base_dict
    THEN [raised |-> "KeyError", order |-> <<>>]
    ELSE [raised |-> "none", order |-> [i \in 1..Len(list) |-> base_dict[list[i].text]]]

\* getModOrder(path, ignore)
getModOrder(fsys, text, ignore, list) == newOrder(baseDict(fsys, text, ignore), list)

\* os.path.join(os.getcwd(), "Scripts", "Merge")
mergeScriptDir == join(join(cwd, "Scripts"), "Merge")

\* isExeOrPy(path)
isExeOrPy(path) == endswith(lower(path), ".exe") \/ endswith(lower(path), ".py")

\* getScript(path): the first script at the top of path, "" standing for the
\* FileNotFoundError it raises
getScript(fsys, path) ==
    IF ~exists(fsys, path) THEN ""
    ELSE LET scripts == {f \in fsys[path] : isExeOrPy(f)}
         IN IF scripts = {} THEN ""
            ELSE CHOOSE f \in scripts : \A g \in scripts : g = f \/ StrLess(f, g)

\* nFlagVal in getMergeFlags
nFlagVal(nameText) == (IF nameText # "" THEN nameText ELSE "merged") \o ".ini"

\* new_name in the enable branch of runMerge, for the entry dir of root
enabledName(root, dir) == join(root, SliceFrom(dir, Len("DISABLED")))

\* the loop over dirs in the enable branch of runMerge, for one root
RECURSIVE enableDirs(_, _, _)
enableDirs(root, dirs, st) ==
    IF dirs = <<>> \/ st.raised # "none" THEN st
    ELSE IF ~startswith(upper(Head(dirs)), "DISABLED")
    THEN enableDirs(root, Tail(dirs), st)
    ELSE IF renameFails(st.fs, join(root, Head(dirs)), enabledName(root, Head(dirs)))
    THEN [st EXCEPT !.raised = "OSError"]
    ELSE enableDirs(root, Tail(dirs),
             [st EXCEPT !.fs = renamed(@, join(root, Head(dirs)), enabledName(root, Head(dirs))),
                        !.log = Append(@, "INFO enabled mod folder")])

\* The loop over os.walk(target_dir) in the enable branch of runMerge.  os.walk
\* lists a directory, hands the list to the loop body, and then descends into
\* the names of that list; a name that is gone by then is passed over.
RECURSIVE enableWalk(_, _)
enableLists(todo, dirs, st) ==
    enableWalk(subdirsOf(Head(todo), dirs) \o Tail(todo), enableDirs(Head(todo), dirs, st))
enableWalk(todo, st) ==
    IF todo = <<>> \/ st.raised # "none" THEN st
    ELSE IF ~exists(st.fs, Head(todo)) THEN enableWalk(Tail(todo), st)
    ELSE enableLists(todo, listdirs(st.fs, Head(todo)), st)

\* str(n) for n >= 0
Digits == <<"0", "1", "2", "3", "4", "5", "6", "7", "8", "9">>
RECURSIVE str(_)
str(n) == IF n < 10 THEN Digits[n + 1] ELSE str(n \div 10) \o Digits[(n % 10) + 1]

\* " ".join(map(str, mod_order))
RECURSIVE joinSpace(_)
joinSpace(mod_order) ==
    IF mod_order = <<>> THEN ""
    ELSE IF Len(mod_order) = 1 THEN str(mod_order[1])
    ELSE str(mod_order[1]) \o " " \o joinSpace(Tail(mod_order))

\* input_data in the normal branch of runMerge
orderInput(mod_order) == "\n" \o joinSpace(mod_order) \o "\n"

\* the text runScript writes to the standard input of the script: the
\* parameter input_data is overwritten before it is used
stdinSent(input_data) == "\n"

\* no script was run
notRun == [script |-> "", args |-> <<>>, input_data |-> "", launched |-> FALSE, stdin |-> ""]

\* a finally block that leaves the working directory where it is
restoreNever(st, original_cwd) == st

\* the finally block of runScript: os.chdir(original_cwd)
restoreCwd(st, original_cwd) == [st EXCEPT !.cwd = original_cwd]

\* the except block of runScript
scriptError(st) == [st EXCEPT !.log = Append(@, "INFO error")]

\* runScript from Popen on: the process is started in target_directory, gets
\* its input and ends
launchScript(st, script, args, input_data, fate) ==
    IF fate = "launch failed" THEN scriptError(st)
    ELSE [st EXCEPT !.ran = [script |-> script, args |-> args, input_data |-> input_data,
                             launched |-> TRUE, stdin |-> stdinSent(input_data)],
                    !.log = Append(@, IF fate = "exit 0" THEN "SUCCESS script executed"
                                      ELSE "ERROR script returned error code")]

\* the try block of runScript: the two checks, os.chdir(target_directory),
\* the choice by extension
tryScript(st, script, target_directory, args, input_data, fate) ==
    IF fate = "file gone" \/ ~exists(st.fs, target_directory) THEN scriptError(st)
    ELSE IF ~(endswith(script, ".py") \/ endswith(script, ".exe"))
    THEN scriptError([st EXCEPT !.cwd = target_directory])
    ELSE launchScript([st EXCEPT !.cwd = target_directory], script, args, input_data, fate)

\* runScript(script_path, target_directory, args, input_data); fate is what
\* becomes of the script: its file gone before the call, the launch failed,
\* or its exit code
runScript(st, script, target_directory, args, input_data, fate) ==
    restoreCwd(tryScript(st, script, target_directory, args, input_data, fate), st.cwd)

\* one flag of the command line and its value
Flag(flag, value) == [flag |-> flag, value |-> value]

\* use_flags in the normal branch of runMerge: all the flags of getMergeFlags
allFlags(key, nameText, text, aFlag) ==
    <<Flag("-k", key), Flag("-n", nameText), Flag("-r", text)>>
    \o (IF aFlag THEN <<Flag("-a", "")>> ELSE <<>>)

\* use_flags in the enable branch of runMerge
enableFlags(text) == <<Flag("-r", text), Flag("-e", "")>>

\* the state a handler that runs a script starts from
scriptStart(fsys, dir) ==
    [fs |-> fsys, cwd |-> dir, log |-> <<>>, raised |-> "none", order |-> <<>>,
     ran |-> notRun, go |-> FALSE]

\* the normal branch of runMerge up to the call of runScript: go is set when
\* getModOrder has returned and the script is to be run
orderReady(st, mod_order) ==
    IF mod_order.raised # "none"
    THEN [st EXCEPT !.raised = mod_order.raised]
    ELSE [st EXCEPT !.order = mod_order.order,
                    !.log = Append(@, "INFO running script"),
                    !.go = TRUE]

\* the enable branch of runMerge up to the call of runScript: go is set when
\* the rename loop is through
enableReady(st) ==
    IF st.raised # "none" THEN st
    ELSE [st EXCEPT !.log = Append(@, "INFO running script"), !.go = TRUE]

\* runMerge up to the call of runScript: st0 the state at the click, text the
\* merge directory field, list the merge list, script what getScript found,
\* eFlag the enable box, nameText the name field
mergeReady(st0, text, list, script, eFlag, nameText) ==
    IF script = ""
    THEN [st0 EXCEPT !.log = <<"ERROR no script">>]
    ELSE IF ~exists(st0.fs, mergeRoot(text))
    THEN [st0 EXCEPT !.log = <<"ERROR merge directory">>]
    ELSE IF eFlag
    THEN enableReady(enableWalk(<<mergeRoot(text)>>,
                                [st0 EXCEPT !.log = <<"WARNING enable flag">>]))
    ELSE orderReady(st0, getModOrder(st0.fs, text, nFlagVal(nameText), list))

\* the call of runScript that ends runMerge, when it is reached
mergeRun(st, key, text, script, aFlag, eFlag, nameText, fate) ==
    IF ~st.go THEN st
    ELSE IF eFlag
    THEN runScript(st, script, mergeRoot(text), enableFlags(text), "", fate)
    ELSE runScript(st, script, mergeRoot(text),
                   allFlags(key, nFlagVal(nameText), text, aFlag),
                   orderInput(st.order), fate)

\* runPatch once getScript has answered
runPatchWith(st0, script, fate) ==
    IF script = ""
    THEN [st0 EXCEPT !.log = <<"ERROR no script">>]
    ELSE runScript([st0 EXCEPT !.log = <<"INFO running script">>, !.go = TRUE],
                   script, modding_dir, <<>>, "\n", fate)

-----------------------------------------------------------------------------
(* Handlers of the merge tab *)

\* the directories the user can pick in the file dialog
MergeRoots == {<<"pack">>, modding_dir}

\* what the user can type into the name field
NameTexts == {"", "mod"}

\* what can become of a script
Fates == {"exit 0", "exit 1", "launch failed", "file gone"}

\* the body of populateMergeList
refreshMergeList ==
    /\ IF ~exists(fs, mergeRoot(mergeDirLineEdit))
       THEN /\ log' = <<"ERROR directory does not exist">>
            /\ lastOp' = [op |-> "populateMergeList", visited |-> <<>>]
            /\ UNCHANGED <<mergeModList, mergeModsButton>>
       ELSE \E r \in {mergeScan(fs, mergeDirLineEdit)} :
               /\ mergeModList' = r.items
               /\ mergeModsButton' =
                      mergeButtonState(swapKeyLineEdit, mergeDirLineEdit, Len(r.items))
               /\ log' = IF mergeDirLineEdit # <<>> /\ Len(r.items) <= 1
                         THEN <<"WARNING less than 2 mods">> ELSE <<>>
               /\ lastOp' = [op |-> "populateMergeList", visited |-> r.visited]
    /\ raised' = "none"
    /\ UNCHANGED <<fs, manageVars, mergeDirLineEdit, swapKeyLineEdit, external, workdir>>

\* a click on the refresh button of the merge tab
populateMergeList == refreshMergeList /\ UNCHANGED carouselVars

\* browseMergeDir with the directory picked in the dialog: setText, then
\* populateMergeList
browseMergeDir ==
    \E directory \in MergeRoots \cap DOMAIN fs :
        \E r \in {mergeScan(fs, directory)} :
            /\ mergeDirLineEdit' = directory
            /\ mergeModList' = r.items
            /\ mergeModsButton' = mergeButtonState(swapKeyLineEdit, directory, Len(r.items))
            /\ log' = IF Len(r.items) <= 1 THEN <<"WARNING less than 2 mods">> ELSE <<>>
            /\ lastOp' = [op |-> "browseMergeDir", visited |-> r.visited]
            /\ raised' = "none"
            /\ UNCHANGED <<fs, manageVars, swapKeyLineEdit, external, workdir, carouselVars>>

\* the user types the swap key or clears it: textChanged runs updateMergeButton
editSwapKey ==
    \E key \in {"", "k"} :
        /\ key # swapKeyLineEdit
        /\ swapKeyLineEdit' = key
        /\ mergeModsButton' = mergeButtonState(key, mergeDirLineEdit, Len(mergeModList))
        /\ lastOp' = [op |-> "editSwapKey"]
        /\ raised' = "none"
        /\ UNCHANGED <<fs, manageVars, mergeDirLineEdit, mergeModList, log, external, workdir,
                       carouselVars>>

\* A click on the Merge Mods button.  The active box and what becomes of the
\* script matter only when the script is run.
runMerge ==
    /\ mergeModsButton
    /\ \E eFlag \in BOOLEAN, nameText \in NameTexts :
        \E st \in {mergeReady(scriptStart(fs, workdir), mergeDirLineEdit, mergeModList,
                              getScript(fs, mergeScriptDir), eFlag, nameText)} :
          \E aFlag \in IF st.go /\ ~eFlag THEN BOOLEAN ELSE {FALSE},
             fate \in IF st.go THEN Fates ELSE {"exit 0"} :
            \E r \in {mergeRun(st, swapKeyLineEdit, mergeDirLineEdit,
                               getScript(fs, mergeScriptDir), aFlag, eFlag, nameText, fate)} :
               /\ fs' = r.fs
               /\ log' = r.log
               /\ raised' = r.raised
               /\ workdir' = r.cwd
               /\ lastOp' = [op |-> "runMerge", enable |-> eFlag, name |-> nameText,
                             raised |-> r.raised, called |-> r.go, order |-> r.order,
                             ran |-> r.ran]
               /\ UNCHANGED <<manageVars, mergeVars, external, carouselVars>>

\* a click on the patch button
runPatch ==
    \E st \in {scriptStart(fs, workdir)}, script \in {getScript(fs, join(cwd, "Scripts"))} :
        \E fate \in IF script # "" THEN Fates ELSE {"exit 0"} :
            \E r \in {runPatchWith(st, script, fate)} :
               /\ log' = r.log
               /\ raised' = r.raised
               /\ workdir' = r.cwd
               /\ lastOp' = [op |-> "runPatch", called |-> r.go, ran |-> r.ran]
               /\ UNCHANGED <<fs, manageVars, mergeVars, external, carouselVars>>

-----------------------------------------------------------------------------
(* The image preview: updatePreview, showNextImage, showPrevImage,
   clearPreviewAndRefresh *)

\* file.lower().endswith(('.png', '.jpg'))
isImage(file) == endswith(lower(file), ".png") \/ endswith(lower(file), ".jpg")

\* the file names S in the order of a directory listing
RECURSIVE sortedFiles(_)
sortedFilesFrom(S, f) == <<f>> \o sortedFiles(S \ {f})
sortedFiles(S) ==
    IF S = {} THEN <<>>
    ELSE sortedFilesFrom(S, CHOOSE f \in S : \A g \in S : g = f \/ StrLess(f, g))

\* the paths of the images among files, a sorted listing of root
RECURSIVE imagesOf(_, _, _)
imagesOf(root, files, i) ==
    IF i > Len(files) THEN <<>>
    ELSE (IF isImage(files[i]) THEN <<join(root, files[i])>> ELSE <<>>)
         \o imagesOf(root, files, i + 1)

\* the loop over os.walk(mod_directory) in updatePreview: the images of the
\* directories of todo and of all below them, in the order of the walk
RECURSIVE previewWalk(_, _)
previewWalk(fsys, todo) ==
    IF todo = <<>> THEN <<>>
    ELSE imagesOf(Head(todo), sortedFiles(fsys[Head(todo)]), 1)
         \o previewWalk(fsys, subdirs(fsys, Head(todo)) \o Tail(todo))

\* carousel_images as updatePreview fills it; os.walk("") yields nothing
previewImages(fsys, mod_directory) ==
    IF mod_directory = <<>> THEN <<>> ELSE previewWalk(fsys, <<mod_directory>>)

\* the index after showPrevImage, without the modulo
prevIndexNoWrap(idx, count) == idx - 1

\* (carousel_idx - 1) % len(carousel_images): Python's % takes the sign of
\* the divisor, as % does here
prevIndex(idx, count) == (idx - 1) % count

\* (carousel_idx + 1) % len(carousel_images)
nextIndex(idx, count) == (idx + 1) % count

\* the mod_status updatePreview is connected with, one for each list
ModStatuses == {"Enabled", "Disabled", ""}

\* selected_list in updatePreview
selectedList(mod_status) ==
    IF mod_status = "Enabled" THEN enabledModList
    ELSE IF mod_status = "Disabled" THEN disabledModList
    ELSE mergeModList

\* updatePreview(mod_status), run when the current item of a list changes;
\* current is the row of the new current item, 0 when the list has none.
\* Every change of a current item, also one that follows from a handler
\* changing a list, is a step of its own here.
updatePreview ==
    \E mod_status \in ModStatuses :
        \E current \in 0..Len(selectedList(mod_status)) :
            /\ IF current = 0
               THEN UNCHANGED carouselVars
               ELSE /\ carousel_images' =
                          previewImages(fs, findModDirectory(fs,
                                                selectedList(mod_status)[current].text))
                    /\ carousel_idx' = 0
            /\ lastOp' = [op |-> "updatePreview"]
            /\ raised' = "none"
            /\ UNCHANGED <<fs, manageVars, mergeVars, log, external, workdir>>

\* a click on a next button
showNextImage ==
    /\ IF carousel_images # <<>>
       THEN carousel_idx' = nextIndex(carousel_idx, Len(carousel_images))
       ELSE UNCHANGED carousel_idx
    /\ lastOp' = [op |-> "showNextImage", before |-> carousel_idx]
    /\ raised' = "none"
    /\ UNCHANGED <<fs, manageVars, mergeVars, log, external, workdir, carousel_images>>

\* a click on a back button
showPrevImage ==
    /\ IF carousel_images # <<>>
       THEN carousel_idx' = prevIndex(carousel_idx, Len(carousel_images))
       ELSE UNCHANGED carousel_idx
    /\ lastOp' = [op |-> "showPrevImage", before |-> carousel_idx, follows |-> lastOp.op]
    /\ raised' = "none"
    /\ UNCHANGED <<fs, manageVars, mergeVars, log, external, workdir, carousel_images>>

\* the tabs clearPreviewAndRefresh knows, by tabText(index).lower()
Tabs == {"manage", "merge"}

\* clearPreviewAndRefresh(index), run when the tab changes
clearPreviewAndRefresh ==
    \E tab_name \in Tabs :
        /\ carousel_images' = <<>>
        /\ UNCHANGED carousel_idx
        /\ IF tab_name = "manage" THEN refreshModLists ELSE refreshMergeList

-----------------------------------------------------------------------------
(* The trees the manage tab starts from *)

\* the directories an initial tree is made of: mod directories directly
\* below Mods and a folder W that groups mods
ModsPaths ==
    {join(modding_dir, n) :
        n \in {"ModA", "DISABLEDModA", "DISABLEDDISABLEDModA", "DISABLED_ModB", "W"}}
    \cup {<<"app", "Mods", "W", "ModA">>, <<"app", "Mods", "ModA", "sub">>}

\* a cache directory of the game beside the mods, and a mod that has the
\* name of a cache directory within its own
CachePaths ==
    {<<"app", "Mods", "ShaderCache">>, <<"app", "Mods", "ShaderCache", "sub">>,
     <<"app", "Mods", "ShaderCacheMod">>}

\* the files a directory of an initial tree can hold: the grouping folder
\* holds none, a directory further down holds a .ini file, any other holds a
\* .ini file or a file that only has ".ini" in its name
FileSets(p) ==
    IF basename(p) \in {"W", "Group"} THEN {{}}
    ELSE IF basename(p) = "sub" THEN {{"mod.ini"}}
    ELSE {{"mod.ini"}, {"mod.ini.bak"}}

\* every way to fill the directories S with files
RECURSIVE Fillings(_)
Fillings(S) ==
    IF S = {} THEN {[p \in {cwd, modding_dir} |-> {}]}
    ELSE LET q == CHOOSE x \in S : TRUE
         IN {[p \in DOMAIN t \cup {q} |-> IF p = q THEN f ELSE t[p]] :
                t \in Fillings(S \ {q}), f \in FileSets(q)}

\* the trees over paths: Mods and at most MaxDirs directories below it, each
\* with its parent
TreesOver(paths) ==
    UNION {Fillings(S) :
              S \in {T \in SUBSET paths :
                        /\ Cardinality(T) <= MaxDirs
                        /\ \A p \in T : dirname(p) = modding_dir \/ dirname(p) \in T}}

\* the trees the toggles are run on, and the ones the scans are run on
ModsTrees == TreesOver(ModsPaths)
ScanTrees == TreesOver(ModsPaths \cup CachePaths)

\* no Mods directory at all
NoMods == [p \in {cwd} |-> {}]

\* Main.__init__: initUI ends in clearPreviewAndRefresh, which scans Mods
startedOn(trees) ==
    /\ fs \in trees
    /\ IF exists(fs, modding_dir)
       THEN \E r \in {scanResult(fs)} :
               /\ enabledModList = r.enabled
               /\ disabledModList = r.disabled
               /\ log = IF r.enabled = <<>> /\ r.disabled = <<>>
                        THEN <<"WARNING no mods found">> ELSE <<>>
       ELSE /\ enabledModList = <<>>
            /\ disabledModList = <<>>
            /\ log = <<"ERROR directory does not exist">>
    /\ mergeDirLineEdit = <<>>
    /\ mergeModList = <<>>
    /\ swapKeyLineEdit = ""
    /\ mergeModsButton = FALSE
    /\ raised = "none"
    /\ lastOp = [op |-> "init"]
    /\ external = 0
    /\ workdir = cwd
    /\ carousel_images = <<>>
    /\ carousel_idx = 0

Init == startedOn(ModsTrees \cup {NoMods})

Next ==
    \/ populateModLists
    \/ moveModsDisable
    \/ moveModsEnable
    \/ externalRemove

Spec == Init /\ [][Next]_vars

\* the two scans on the trees of the manage tab, the merge tab pointed at Mods
NextScan ==
    \/ populateModLists
    \/ browseMergeDir
    \/ populateMergeList
    \/ externalRemove

InitScan == startedOn(ScanTrees \cup {NoMods})

SpecScan == InitScan /\ [][NextScan]_vars

\* trees for the lookup by name: a mod, enabled or disabled, directly below
\* Mods and inside a folder that os.walk lists before it
FindPaths ==
    {<<"app", "Mods", "ModA">>, <<"app", "Mods", "DISABLEDModA">>, <<"app", "Mods", "Group">>,
     <<"app", "Mods", "Group", "ModA">>, <<"app", "Mods", "Group", "DISABLEDModA">>}

InitFind == startedOn(TreesOver(FindPaths) \cup {NoMods})

SpecFind == InitFind /\ [][Next]_vars

\* mods with pictures: ModA, a folder of it, and a disabled mod
PreviewPaths ==
    {<<"app", "Mods", "ModA">>, <<"app", "Mods", "ModA", "sub">>,
     <<"app", "Mods", "DISABLED_ModB">>}

\* the files a directory of a mod with pictures can hold
PreviewFiles(p) ==
    IF basename(p) = "ModA"
    THEN {{"mod.ini"}, {"mod.ini", "a.png"}, {"mod.ini", "a.png", "B.JPG"}}
    ELSE IF basename(p) = "sub" THEN {{}, {"c.jpg"}, {"c.jpg.txt"}}
    ELSE {{"mod.ini", "b.png"}, {"mod.ini", "a.PNG", "b.png", "c.jpg"}}

\* every way to fill the directories S of the mods with pictures
RECURSIVE PreviewFillings(_)
PreviewFillings(S) ==
    IF S = {} THEN {[p \in {cwd, modding_dir} |-> {}]}
    ELSE LET q == CHOOSE x \in S : TRUE
         IN {[p \in DOMAIN t \cup {q} |-> IF p = q THEN f ELSE t[p]] :
                t \in PreviewFillings(S \ {q}), f \in PreviewFiles(q)}

\* the trees the preview is run on
PreviewTrees ==
    UNION {PreviewFillings(S) :
              S \in {T \in SUBSET PreviewPaths :
                        /\ Cardinality(T) <= MaxDirs
                        /\ \A p \in T : dirname(p) = modding_dir \/ dirname(p) \in T}}

InitPreview == startedOn(PreviewTrees \cup {NoMods})

\* selections, clicks on the arrows of the preview, changes of tab, and the
\* world outside
NextPreview ==
    \/ updatePreview
    \/ showNextImage
    \/ showPrevImage
    \/ clearPreviewAndRefresh
    \/ externalRemove

SpecPreview == InitPreview /\ [][NextPreview]_vars

-----------------------------------------------------------------------------
(* The trees the merge tab works on *)

\* the directories of a pack of mods to merge
PackPaths ==
    {<<"pack", "ModA">>, <<"pack", "ModB">>, <<"pack", "DISABLEDModB">>,
     <<"pack", "disabledModC">>, <<"pack", "ModA", "sub">>,
     <<"pack", "DISABLEDModB", "DISABLEDsub">>}

\* the files a directory of a pack can hold
PackFiles(p) ==
    IF basename(p) = "ModA"
    THEN {{"mod.ini"}, {"mod.ini", "extra.ini"}, {"DISABLEDmod.ini"}, {"merged.ini"}}
    ELSE IF basename(p) = "ModB" THEN {{"mod.ini"}, {}}
    ELSE {{"mod.ini"}}

\* every way to fill the directories S of a pack with files
RECURSIVE PackFillings(_)
PackFillings(S) ==
    IF S = {} THEN {[p \in {cwd, <<"pack">>} |-> {}]}
    ELSE LET q == CHOOSE x \in S : TRUE
         IN {[p \in DOMAIN t \cup {q} |-> IF p = q THEN f ELSE t[p]] :
                t \in PackFillings(S \ {q}), f \in PackFiles(q)}

\* the packs: at most MaxDirs directories, each with its parent
Packs ==
    UNION {PackFillings(S) :
              S \in {T \in SUBSET PackPaths :
                        /\ Cardinality(T) <= MaxDirs
                        /\ \A p \in T : dirname(p) = <<"pack">> \/ dirname(p) \in T}}

\* the Scripts/Merge folder: missing, without a script, or with one
ScriptFolders ==
    {[p \in {} |-> {}],
     [p \in {join(cwd, "Scripts"), mergeScriptDir} |-> {}],
     [p \in {join(cwd, "Scripts"), mergeScriptDir} |->
         IF p = mergeScriptDir THEN {"merge.py"} ELSE {"patch.PY"}],
     [p \in {join(cwd, "Scripts"), mergeScriptDir} |->
         IF p = mergeScriptDir THEN {"merge.PY"} ELSE {"patch.exe"}]}

\* Main.__init__ in a working directory without Mods, beside a pack
InitMerge ==
    /\ fs \in {t @@ f : t \in Packs, f \in ScriptFolders}
    /\ enabledModList = <<>>
    /\ disabledModList = <<>>
    /\ log = <<"ERROR directory does not exist">>
    /\ mergeDirLineEdit = <<>>
    /\ mergeModList = <<>>
    /\ swapKeyLineEdit \in {"", "k"}
    /\ mergeModsButton = FALSE
    /\ raised = "none"
    /\ lastOp = [op |-> "init"]
    /\ external = 0
    /\ workdir = cwd
    /\ carousel_images = <<>>
    /\ carousel_idx = 0

NextMerge ==
    \/ populateMergeList
    \/ browseMergeDir
    \/ editSwapKey
    \/ runMerge
    \/ externalRemove

SpecMerge == InitMerge /\ [][NextMerge]_vars

\* Main.__init__ in a working directory with a Scripts folder
InitPatch == startedOn({t @@ f : t \in ModsTrees \cup {NoMods}, f \in ScriptFolders})

\* the patch button, the refresh button and the world outside
NextPatch ==
    \/ runPatch
    \/ populateModLists
    \/ externalRemove

SpecPatch == InitPatch /\ [][NextPatch]_vars

-----------------------------------------------------------------------------
(* Properties of the manage tab *)

\* the lists show what a scan of the tree as it is now finds
Fresh == lastOp.op \in {"init", "populateModLists"} /\ exists(fs, modding_dir)

\* the last handler was a moveMods
Moved == lastOp.op = "moveMods"

\* the list moveMods took items from, and the one it added them to
SourceList == IF lastOp.source_status = "Enabled" THEN enabledModList ELSE disabledModList
TargetList == IF lastOp.source_status = "Enabled" THEN disabledModList ELSE enabledModList

\* the texts of a list
Texts(list) == [i \in 1..Len(list) |-> list[i].text]

\* name without a leading "DISABLED" and the "_" that may follow it
Stripped(name) ==
    IF ~startswith(name, prefix) THEN name
    ELSE IF startswith(name, prefix \o "_") THEN SliceFrom(name, Len(prefix) + 1)
    ELSE SliceFrom(name, Len(prefix))

\* moveMods on the item at place i of src, then moveMods the other way on the
\* item the first one appended: both renames done and the tree as it was
backAgain(fsys, source_status, r1) ==
    r1.steps[1].outcome = "renamed" =>
        \A r2 \in {moveMods(r1.fs, r1.target, r1.source,
                            IF source_status = "Enabled" THEN "Disabled" ELSE "Enabled",
                            <<Len(r1.target)>>)} :
            r2.steps[1].outcome = "renamed" => r2.fs = fsys
roundTrip(fsys, src, tgt, source_status, i) ==
    backAgain(fsys, source_status, moveMods(fsys, src, tgt, source_status, <<i>>))

\* C1 (as claimed): for every mod directory a scan lists, a toggle of its
\* item followed by a toggle back of the item produced, both renames
\* succeeding, leaves every directory of the tree at its original path.
C1_ToggleTwiceRestores ==
    Fresh =>
        /\ \A i \in 1..Len(enabledModList) :
              roundTrip(fs, enabledModList, disabledModList, "Enabled", i)
        /\ \A i \in 1..Len(disabledModList) :
              roundTrip(fs, disabledModList, enabledModList, "Disabled", i)

\* C2 (as claimed): with no change to the tree from outside, every entry of
\* the enabled list names an existing directory whose base name does not
\* start with "DISABLED", and every entry of the disabled list names an
\* existing directory whose base name starts with "DISABLED".
C2_FlagFromName ==
    external = 0 =>
        /\ \A i \in 1..Len(enabledModList) :
              /\ exists(fs, enabledModList[i].toolTip)
              /\ ~startswith(basename(enabledModList[i].toolTip), "DISABLED")
        /\ \A i \in 1..Len(disabledModList) :
              /\ exists(fs, disabledModList[i].toolTip)
              /\ startswith(basename(disabledModList[i].toolTip), "DISABLED")

\* the tree of the scenario: Mods holds ModA/mod.ini and DISABLED_ModB/mod.ini
ScenarioTree ==
    /\ DOMAIN fs = {cwd, modding_dir, join(modding_dir, "ModA"), join(modding_dir, "DISABLED_ModB")}
    /\ fs[join(modding_dir, "ModA")] = {"mod.ini"}
    /\ fs[join(modding_dir, "DISABLED_ModB")] = {"mod.ini"}

\* C3 (as claimed): a scan records a directory whose base name starts with
\* the prefix in the disabled list under the name without the prefix, any
\* other in the enabled list under its base name; the scenario tree yields
\* enabled = ["ModA"], disabled = ["ModB"].
C3_ScanStripsPrefix ==
    Fresh =>
        /\ \A i \in 1..Len(enabledModList) :
              /\ ~startswith(basename(enabledModList[i].toolTip), prefix)
              /\ enabledModList[i].text = basename(enabledModList[i].toolTip)
        /\ \A i \in 1..Len(disabledModList) :
              /\ startswith(basename(disabledModList[i].toolTip), prefix)
              /\ disabledModList[i].text = Stripped(basename(disabledModList[i].toolTip))
        /\ ScenarioTree =>
              Texts(enabledModList) = <<"ModA">> /\ Texts(disabledModList) = <<"ModB">>

\* C3 (amended): a scan records every mod directory under its full base
\* name, in the disabled list when that name starts with "DISABLED" and in
\* the enabled list otherwise; the scenario tree yields enabled = ["ModA"],
\* disabled = ["DISABLED_ModB"].
C3_ScanKeepsBaseName ==
    Fresh =>
        /\ \A i \in 1..Len(enabledModList) :
              /\ ~startswith(basename(enabledModList[i].toolTip), "DISABLED")
              /\ enabledModList[i].text = basename(enabledModList[i].toolTip)
        /\ \A i \in 1..Len(disabledModList) :
              /\ startswith(basename(disabledModList[i].toolTip), "DISABLED")
              /\ disabledModList[i].text = basename(disabledModList[i].toolTip)
        /\ ScenarioTree =>
              Texts(enabledModList) = <<"ModA">> /\ Texts(disabledModList) = <<"DISABLED_ModB">>

\* C3 witness: the scenario tree has been scanned
C3_Witness ==
    /\ lastOp.op = "populateModLists"
    /\ ScenarioTree
    /\ Len(enabledModList) = 1
    /\ Len(disabledModList) = 1

-----------------------------------------------------------------------------
(* Properties of the two scans *)

\* the last handler was a scan of the manage tab, or of the merge tab, over a
\* directory that is still as the scan saw it
ManageScanned == lastOp.op = "populateModLists" /\ exists(fs, modding_dir)
MergeScanned ==
    lastOp.op \in {"populateMergeList", "browseMergeDir"} /\ exists(fs, mergeRoot(mergeDirLineEdit))

\* the directories a scan went through, and the ones it listed
Visited == {lastOp.visited[i] : i \in 1..Len(lastOp.visited)}
Listed(list) == {list[i].toolTip : i \in 1..Len(list)}

\* the directories from top down to the parent of p
Above(top, p) == {SubSeq(p, 1, k) : k \in Len(top)..(Len(p) - 1)}

\* p lies below a directory, at or below top, that holds an .ini file
belowIni(top, p) == \E a \in Above(top, p) : hasIni(fs, a)

\* C4 (as claimed): neither scan visits or lists a directory that lies below
\* a directory whose own files include one ending in ".ini".
C4_NeverBelowIni ==
    /\ ManageScanned =>
          \A p \in Visited \cup Listed(enabledModList) \cup Listed(disabledModList) :
              ~belowIni(modding_dir, p)
    /\ MergeScanned =>
          \A p \in Visited \cup Listed(mergeModList) :
              ~belowIni(mergeRoot(mergeDirLineEdit), p)

\* C4 (amended): neither scan lists a directory that lies below a directory
\* holding an .ini file.  populateMergeList visits exactly the directories
\* with no .ini file in any directory above them; populateModLists visits
\* exactly the directories where every directory above either holds no .ini
\* file or has BufferValues, ShaderCache or ShaderFixes in its path, so it
\* does go below an .ini directory of that kind, and nowhere else.  In both,
\* what lies beside an .ini directory is visited.
C4_PrunedBelowIni ==
    /\ ManageScanned =>
          /\ \A p \in Listed(enabledModList) \cup Listed(disabledModList) :
                ~belowIni(modding_dir, p)
          /\ Visited = {p \in DOMAIN fs :
                          /\ within(p, modding_dir)
                          /\ \A a \in Above(modding_dir, p) :
                                ~hasIni(fs, a) \/ isCachePath(a)}
    /\ MergeScanned =>
          /\ \A p \in Listed(mergeModList) : ~belowIni(mergeRoot(mergeDirLineEdit), p)
          /\ Visited = {p \in DOMAIN fs :
                          /\ within(p, mergeRoot(mergeDirLineEdit))
                          /\ ~belowIni(mergeRoot(mergeDirLineEdit), p)}

\* C4 witness: a scan of the manage tab has passed over the subdirectory of a
\* listed mod and visited a directory beside that mod
C4_Witness ==
    /\ ManageScanned
    /\ \E p \in Listed(enabledModList) :
          /\ \E q \in DOMAIN fs : dirname(q) = p /\ q \notin Visited
          /\ \E q \in Visited : q # p /\ dirname(q) = dirname(p)

\* the names of the cache directories (populateModLists)
CacheNames == {"BufferValues", "ShaderCache", "ShaderFixes"}

\* p is a directory with one of the cache names, or lies below one
inCacheDir(p) == \E i \in 1..Len(p) : p[i] \in CacheNames

\* C15: populateModLists lists exactly the directories under Mods that hold
\* an .ini file, lie below no directory holding one, and neither are named
\* BufferValues, ShaderCache or ShaderFixes nor lie below a directory so
\* named; a mod whose longer name only contains such a word is listed.
C15_ListsExactlyTheMods ==
    ManageScanned =>
        Listed(enabledModList) \cup Listed(disabledModList)
            = {p \in DOMAIN fs : /\ within(p, modding_dir)
                                 /\ hasIni(fs, p)
                                 /\ ~belowIni(modding_dir, p)
                                 /\ ~inCacheDir(p)}

\* C14: a scan whose root does not exist logs that the directory does not
\* exist and leaves the lists as they were: populateModLists both lists of the
\* manage tab, populateMergeList the merge list.
C14_MissingRootKeepsLists ==
    [][/\ (lastOp'.op = "populateModLists" /\ ~exists(fs, modding_dir))
          => /\ enabledModList' = enabledModList
             /\ disabledModList' = disabledModList
             /\ log' = <<"ERROR directory does not exist">>
       /\ (lastOp'.op = "populateMergeList" /\ ~exists(fs, mergeRoot(mergeDirLineEdit)))
          => /\ mergeModList' = mergeModList
             /\ log' = <<"ERROR directory does not exist">>]_vars

\* C14 witness: Mods is gone, both refresh buttons were pressed since, and the
\* lists still hold the items of the scans before
C14_Witness ==
    /\ lastOp.op = "populateMergeList"
    /\ mergeDirLineEdit = modding_dir
    /\ ~exists(fs, modding_dir)
    /\ log = <<"ERROR directory does not exist">>
    /\ mergeModList # <<>>
    /\ enabledModList # <<>>
    /\ disabledModList # <<>>

-----------------------------------------------------------------------------
(* Properties of moveMods *)

\* the trees a moveMods goes through: trees holds the tree before the first
\* step and the tree after each step before the k-th, the renames of the moved
\* items applied one after the other
RECURSIVE treesAlong(_, _, _)
treesAlong(trees, steps, k) ==
    IF k > Len(steps) THEN trees
    ELSE treesAlong(Append(trees,
                           IF steps[k].outcome = "renamed"
                           THEN renamed(trees[k], steps[k].mod_dir, steps[k].dest_path)
                           ELSE trees[k]),
                    steps, k + 1)

\* the places of the items the steps moved
movedPlaces(steps) == {steps[k].pos : k \in {j \in 1..Len(steps) : steps[j].outcome = "renamed"}}

\* list without the items at the places in gone, the others in their order
RECURSIVE without(_, _, _)
without(list, gone, i) ==
    IF i > Len(list) THEN <<>>
    ELSE (IF i \in gone THEN <<>> ELSE <<list[i]>>) \o without(list, gone, i + 1)

\* the name a toggle is to give: DISABLED put before the name, or the first
\* eight characters taken off
toggledName(name, source_status) ==
    IF source_status = "Enabled" THEN "DISABLED" \o name
    ELSE SubSeq(name, 9, Len(name))

\* C5 (as claimed, the prefix read as the program's "DISABLED"): a toggle of
\* one freshly scanned item that renames, renames the directory of that item,
\* within its parent, to the name with the prefix added (enabled item) or
\* removed (disabled item), and the item it appends to the other list stands
\* for that directory.
C5_RenamesOwnDirectory ==
    [][(/\ Fresh
        /\ lastOp'.op = "moveMods"
        /\ Len(lastOp'.sel) = 1
        /\ lastOp'.steps[1].outcome = "renamed")
       => \A item \in {(IF lastOp'.source_status = "Enabled"
                        THEN enabledModList ELSE disabledModList)[lastOp'.sel[1]]} :
            \A dest \in {join(dirname(item.toolTip),
                              toggledName(basename(item.toolTip), lastOp'.source_status))} :
               /\ fs' = renamed(fs, item.toolTip, dest)
               /\ \A target \in {IF lastOp'.source_status = "Enabled"
                                 THEN disabledModList' ELSE enabledModList'} :
                     target[Len(target)] = Item(basename(dest), dest)]_vars

\* C6: a moveMods of one item that renames leaves the source list as it was
\* but for that item, the others in their order, and the target list as it was
\* with one new item for the mod at its end.
C6_ListsAfterToggle ==
    [][(/\ lastOp'.op = "moveMods"
        /\ Len(lastOp'.sel) = 1
        /\ lastOp'.steps[1].outcome = "renamed")
       => \A i \in {lastOp'.sel[1]} :
            \A src \in {IF lastOp'.source_status = "Enabled"
                        THEN <<enabledModList, enabledModList'>>
                        ELSE <<disabledModList, disabledModList'>>} :
              \A tgt \in {IF lastOp'.source_status = "Enabled"
                          THEN <<disabledModList, disabledModList'>>
                          ELSE <<enabledModList, enabledModList'>>} :
                 /\ src[2] = SubSeq(src[1], 1, i - 1) \o SubSeq(src[1], i + 1, Len(src[1]))
                 /\ tgt[2] = Append(tgt[1],
                                    Item(toggledName(src[1][i].text, lastOp'.source_status),
                                         lastOp'.steps[1].dest_path))]_vars

\* C6 witness: one item was moved from a place before the end of its list to
\* a list that held an item already
C6_Witness ==
    /\ Moved
    /\ Len(lastOp.sel) = 1
    /\ lastOp.steps[1].outcome = "renamed"
    /\ lastOp.sel[1] <= Len(SourceList)
    /\ Len(TargetList) >= 2

\* C7: moveMods takes one step for every selected item, in the order of the
\* selection.  An item whose directory is not found, or whose rename fails,
\* stays in the source list, adds nothing to the target list and renames
\* nothing; every other item is renamed and moved: the tree changes by the
\* renames of the moved items only, the source list loses exactly the moved
\* items and the target list gains one item for each of them.
C7_FailedItemStays ==
    [][lastOp'.op = "moveMods"
       => \A steps \in {lastOp'.steps}, trees \in {treesAlong(<<fs>>, lastOp'.steps, 1)} :
            \A src \in {IF lastOp'.source_status = "Enabled"
                        THEN <<enabledModList, enabledModList'>>
                        ELSE <<disabledModList, disabledModList'>>} :
              \A tgt \in {IF lastOp'.source_status = "Enabled"
                          THEN <<disabledModList, disabledModList'>>
                          ELSE <<enabledModList, enabledModList'>>} :
                 /\ Len(steps) = Len(lastOp'.sel)
                 /\ \A k \in 1..Len(steps) :
                       /\ steps[k].pos = lastOp'.sel[k]
                       /\ steps[k].item_name = src[1][steps[k].pos].text
                       /\ \A mod_dir \in {findModDirectory(trees[k], steps[k].item_name)} :
                             steps[k].outcome =
                                 IF mod_dir = <<>> THEN "notfound"
                                 ELSE IF renameFails(trees[k], mod_dir, steps[k].dest_path)
                                 THEN "failed" ELSE "renamed"
                 /\ fs' = trees[Len(steps) + 1]
                 /\ src[2] = without(src[1], movedPlaces(steps), 1)
                 /\ Len(tgt[2]) = Len(tgt[1]) + Cardinality(movedPlaces(steps))
                 /\ SubSeq(tgt[2], 1, Len(tgt[1])) = tgt[1]]_vars

\* C7 witness: of two selected items the first could not be moved and stayed,
\* the second was renamed and moved
C7_Witness ==
    /\ Moved
    /\ Len(lastOp.steps) = 2
    /\ lastOp.steps[1].outcome \in {"failed", "notfound"}
    /\ lastOp.steps[2].outcome = "renamed"
    /\ \E i \in 1..Len(SourceList) : SourceList[i].text = lastOp.steps[1].item_name
    /\ exists(fs, lastOp.steps[2].dest_path)

\* the directory of a renamed step now bears another name than the one
\* computed for its item
misnamed(step, source_status) ==
    basename(step.dest_path) # toggledName(step.item_name, source_status)

\* the messages moveMods logs for its steps from the k-th on: the status
\* after a rename, followed by the warning where the name on disk is not the
\* computed one, and one error for an item that was not renamed
RECURSIVE messagesOf(_, _, _)
messagesOf(steps, source_status, k) ==
    IF k > Len(steps) THEN <<>>
    ELSE (IF steps[k].outcome = "notfound" THEN <<"ERROR could not find directory">>
          ELSE IF steps[k].outcome = "failed" THEN <<"ERROR rename">>
          ELSE IF misnamed(steps[k], source_status)
          THEN <<"INFO status", "WARNING directory name">>
          ELSE <<"INFO status">>)
         \o messagesOf(steps, source_status, k + 1)

\* C16: after each rename of moveMods that succeeds the warning about the
\* directory name is logged exactly when the base name the directory now has
\* differs from the name computed for the item; nothing is logged when they
\* agree, and a directory that got another name is left where the rename put
\* it.
C16_WarningIffMisnamed ==
    Moved =>
        /\ log = messagesOf(lastOp.steps, lastOp.source_status, 1)
        /\ \A k \in 1..Len(lastOp.steps) :
              (/\ k = Len(lastOp.steps)
               /\ lastOp.steps[k].outcome = "renamed")
              => /\ exists(fs, lastOp.steps[k].dest_path)
                 /\ ~exists(fs, lastOp.steps[k].mod_dir)

\* C16 witness: the one item moved was listed as enabled, its directory had
\* been disabled behind the list, and the rename left it with two prefixes
C16_Witness ==
    /\ Moved
    /\ Len(lastOp.steps) = 1
    /\ lastOp.source_status = "Enabled"
    /\ lastOp.steps[1].outcome = "renamed"
    /\ misnamed(lastOp.steps[1], "Enabled")
    /\ log = <<"INFO status", "WARNING directory name">>
    /\ exists(fs, lastOp.steps[1].dest_path)

-----------------------------------------------------------------------------
(* Properties of runMerge *)

\* the last handler was a runMerge that found the script and the merge
\* directory and took the normal branch, the one that computes the order
OrderAsked ==
    /\ lastOp.op = "runMerge"
    /\ ~lastOp.enable
    /\ getScript(fs, mergeScriptDir) # ""
    /\ exists(fs, mergeRoot(mergeDirLineEdit))

\* every directory at or below top, in the order os.walk yields them
RECURSIVE walkOrder(_, _)
walkOrder(fsys, todo) ==
    IF todo = <<>> THEN <<>>
    ELSE <<Head(todo)>> \o walkOrder(fsys, subdirs(fsys, Head(todo)) \o Tail(todo))

\* directory p passes the filter of getModOrder: nothing of its path holds
\* "disabled" and it has an .ini file whose name holds neither "disabled" nor
\* the token to ignore
survives(text, ignore, p) ==
    /\ ~orderSkipsRoot(shown(text, p))
    /\ \E file \in fs[p] : hasIniExt(file) /\ ~orderSkipsFile(file, ignore)

\* the mods that pass the filter, in walk order
RECURSIVE keep(_, _, _)
keep(text, ignore, dirs) ==
    IF dirs = <<>> THEN <<>>
    ELSE (IF survives(text, ignore, Head(dirs)) THEN <<Head(dirs)>> ELSE <<>>)
         \o keep(text, ignore, Tail(dirs))
survivors(text, ignore) == keep(text, ignore, walkOrder(fs, <<mergeRoot(text)>>))

\* the name of the mod directory p as the walk from the merge directory gives it
modName(p) == basename(shown(mergeDirLineEdit, p))

\* the names in the merge list are distinct and each is the name of one mod
\* that passes the filter
AllSurvive(mods) ==
    /\ \A i, j \in 1..Len(mergeModList) :
          i # j => mergeModList[i].text # mergeModList[j].text
    /\ \A i \in 1..Len(mergeModList) :
          Cardinality({k \in 1..Len(mods) : modName(mods[k]) = mergeModList[i].text}) = 1

\* C8 (as claimed): for a merge list of distinct names that all pass the
\* filter, the order getModOrder returns is as long as the list, its i-th
\* element is the place, counted from 0, of the i-th listed mod among the mods
\* that pass the filter in walk order, and no two mods get the same index.
C8_OrderIsWalkIndex ==
    OrderAsked =>
        \A mods \in {survivors(mergeDirLineEdit, nFlagVal(lastOp.name))} :
            AllSurvive(mods) =>
                /\ lastOp.raised = "none"
                /\ Len(lastOp.order) = Len(mergeModList)
                /\ \A i \in 1..Len(mergeModList) :
                      \E k \in 1..Len(mods) :
                          /\ modName(mods[k]) = mergeModList[i].text
                          /\ lastOp.order[i] = k - 1
                /\ \A i, j \in 1..Len(mergeModList) :
                      i # j => lastOp.order[i] # lastOp.order[j]

\* some name in the merge list has no entry in the base index: no directory
\* of that name passes the filter of getModOrder
SomeNameMissing ==
    \E i \in 1..Len(mergeModList) :
        \A p \in {q \in DOMAIN fs : within(q, mergeRoot(mergeDirLineEdit))} :
            modName(p) = mergeModList[i].text =>
                ~survives(mergeDirLineEdit, nFlagVal(lastOp.name), p)

\* C9: when a name in the merge list has no entry in the base index, the
\* directory gone or filtered out, getModOrder raises the lookup error,
\* no order comes back and the merge script is not started.
C9_MissingNameRaises ==
    (OrderAsked /\ SomeNameMissing) =>
        /\ lastOp.raised = "KeyError"
        /\ lastOp.order = <<>>
        /\ lastOp.ran.script = ""
        /\ "INFO running script" \notin {log[i] : i \in 1..Len(log)}

\* C9 witness: the order was asked for a list with a name that is filtered out
\* and for a list that names a directory since deleted
C9_Witness ==
    /\ OrderAsked
    /\ SomeNameMissing
    /\ lastOp.raised = "KeyError"
    /\ \E i \in 1..Len(mergeModList) : ~exists(fs, mergeModList[i].toolTip)

\* C10 (as claimed): no handler lets an exception out; whatever goes wrong
\* ends as a message in the log.
C10_NothingEscapes == raised = "none"

-----------------------------------------------------------------------------
(* Properties of runScript *)

\* C11 (as claimed): in a merge without the enable flag, the text written to
\* the standard input of the merge script is a newline, the indices that
\* getModOrder returned separated by single spaces, and a newline.
C11_StdinIsOrder ==
    (lastOp.op = "runMerge" /\ ~lastOp.enable /\ lastOp.ran.launched) =>
        lastOp.ran.stdin = "\n" \o joinSpace(lastOp.order) \o "\n"

\* a handler that calls runScript has just returned from it
ScriptCalled == lastOp.op \in {"runMerge", "runPatch"} /\ lastOp.called

\* C12: when runScript has returned, whichever way it went (script file gone,
\* target directory missing, extension not .py or .exe, launch failed, exit
\* code not 0, success), the working directory of the process is the one it
\* was called in.
C12_CwdRestored == ScriptCalled => workdir = cwd

\* C12 witness: the patch script was run in Mods, which is not the working
\* directory, and ended with an error code
C12_Witness ==
    /\ ScriptCalled
    /\ lastOp.op = "runPatch"
    /\ lastOp.ran.launched
    /\ log = <<"INFO running script", "ERROR script returned error code">>
    /\ exists(fs, modding_dir)
    /\ modding_dir # cwd
    /\ workdir = cwd

-----------------------------------------------------------------------------
(* Properties of findModDirectory *)

\* the directories below Mods that go by the name: called so, or so with
\* DISABLED before it
namesakes(mod_name) ==
    {p \in DOMAIN fs : /\ within(p, modding_dir)
                       /\ p # modding_dir
                       /\ basename(p) \in {mod_name, "DISABLED" \o mod_name}}

\* the place of directory p among the directories os.walk yields
placeIn(order, p) == CHOOSE i \in 1..Len(order) : order[i] = p

\* os.walk lists a before b: the directory holding a is yielded before the
\* one holding b, or one directory holds both and lists a first
listedBefore(order, a, b) ==
    \/ placeIn(order, dirname(a)) < placeIn(order, dirname(b))
    \/ dirname(a) = dirname(b) /\ NameRank[basename(a)] < NameRank[basename(b)]

\* the names looked up: the texts of the list items, which moveMods hands to
\* findModDirectory, and some others
LookupNames ==
    {enabledModList[i].text : i \in 1..Len(enabledModList)}
    \cup {disabledModList[i].text : i \in 1..Len(disabledModList)}
    \cup {"ModA", "Group", "Mods", "sub"}

\* what findModDirectory(mod_name) is to return on the tree as it is
foundRight(mod_name, hits, found, order) ==
    IF hits = {} THEN found = <<>>
    ELSE /\ found \in hits
         /\ \A q \in hits \ {found} : listedBefore(order, found, q)

EnablePassDone == lastOp.op = "runMerge" /\ lastOp.enable /\ lastOp.called

\* the directories below the merge directory that still bear the prefix, in
\* any case of letters
stillDisabled ==
    {p \in DOMAIN fs : /\ within(p, mergeRoot(mergeDirLineEdit))
                       /\ p # mergeRoot(mergeDirLineEdit)
                       /\ startswith(upper(basename(p)), "DISABLED")}

\* C17: once the rename loop of the enable branch of runMerge is through, no
\* directory at any depth below the merge directory has a name that begins
\* with DISABLED in any case, those inside a disabled directory included; no
\* merge order is computed and the script, when started, gets -r and -e only.
C17_EnablePassEnablesAll ==
    EnablePassDone =>
        /\ stillDisabled = {}
        /\ lastOp.order = <<>>
        /\ lastOp.ran.launched => lastOp.ran.args = enableFlags(mergeDirLineEdit)

-----------------------------------------------------------------------------
(* Properties of the image preview *)

\* the index of the carousel names one of its images
IndexInRange ==
    carousel_images # <<>> => 0 <= carousel_idx /\ carousel_idx < Len(carousel_images)

\* C18: whatever items are selected, arrows clicked and tabs changed, the
\* index of a carousel that is not empty lies from 0 to below the number of
\* its images, and a showPrevImage that follows a showNextImage puts the
\* index back to what it was before the two.
C18_IndexStaysInRange ==
    /\ []IndexInRange
    /\ [][(lastOp.op = "showNextImage" /\ lastOp'.op = "showPrevImage")
          => /\ carousel_idx' = lastOp.before
             /\ carousel_images' = carousel_images]_vars

\* C18 witness: with three images shown, the next arrow took the index from
\* the last image round to the first and the back arrow took it back
C18_Witness ==
    /\ lastOp.op = "showPrevImage"
    /\ lastOp.follows = "showNextImage"
    /\ lastOp.before = 0
    /\ Len(carousel_images) = 3
    /\ carousel_idx = 2

====
